---- MODULE Spec2Model ----
(***************************************************************************)
(* The two table pages of the prediction client: Home (GET /predict) and   *)
(* History (GET /history, POST /predict/snapshot).  Each page owns the     *)
(* React state rows / loading / err / sortKey / sortDir, the memoised      *)
(* sorted view, and the requests it has started that have not resolved.    *)
(***************************************************************************)
EXTENDS Integers, Sequences, FiniteSets

\* ------------------------------------------------------------------ bounds
\* Longest row list drawn as the fetched list when the sort is checked on
\* its own.
MaxRows == 3
\* Longest row list a response of the server carries in the page machine.
MaxResp == 2
\* Requests (GET and POST together) one page view starts before the model
\* stops starting new ones.
MaxFetches == 3

\* ------------------------------------------------------------ row records
\* null, or an absent optional property (undefined): both take the ?? branch.
Null == -1
\* -Infinity: below every number a row carries.
NegInfinity == -1000
\* The numbers a row field takes.
Vals == {0, 1}

Pages == {"home", "history"}
Dirs == {"asc", "desc"}

\* The columns of each table whose header calls toggleSort.
HomeKeys == {"pred_margin", "home_win_prob", "pick_prob", "net_epa_per_play", "K_pair"}
HistoryKeys == {"created_at", "season", "week", "game_id", "pred_margin", "home_win_prob", "pick_prob"}
Keys(p) == IF p = "home" THEN HomeKeys ELSE HistoryKeys

\* GameView rows.  pred_margin and home_win_prob are numbers; pick_prob,
\* net_epa_per_play and K_pair may be missing.  The sample rows vary in
\* pred_margin, pick_prob and net_epa_per_play; home_win_prob follows
\* pred_margin and K_pair follows net_epa_per_play.
GameViews ==
  { [ pred_margin      |-> m,
      home_win_prob    |-> m,
      pick_prob        |-> p,
      net_epa_per_play |-> e,
      K_pair           |-> e ] :
    m \in Vals, p \in Vals \cup {Null}, e \in {Null, 0} }

\* HistoryRow rows: every field is present.  created_at and game_id are
\* strings, compared by < and >; they are held as their rank in that order.
\* season and week repeat the query's values in every row.
HistoryRows ==
  { [ created_at    |-> c,
      season        |-> 2025,
      week          |-> 8,
      game_id       |-> c,
      pred_margin   |-> m,
      home_win_prob |-> m,
      pick_prob     |-> p ] :
    c \in Vals, m \in Vals, p \in Vals }

RowsOf(p) == IF p = "home" THEN GameViews ELSE HistoryRows

\* All row lists of length at most n over the rows of set S.
RowLists(S, n) == UNION { [1..k -> S] : k \in 0..n }

\* ------------------------------------------------------------ comparators
\* a[sortKey] ?? -Infinity
OrNegInfinity(v) == IF v = Null THEN NegInfinity ELSE v
\* a.pick_prob ?? 0
OrZero(v) == IF v = Null THEN 0 ELSE v

\* The comparator of Home.sorted: negative when a sorts before b.
HomeCompare_NoTieBreak(a, b, key, dir) ==
  LET av == OrNegInfinity(a[key])
      bv == OrNegInfinity(b[key])
  IN  IF av < bv THEN (IF dir = "asc" THEN -1 ELSE 1)
      ELSE IF av > bv THEN (IF dir = "asc" THEN 1 ELSE -1)
      ELSE 0

HomeCompare_IgnoreDir(a, b, key, dir) ==
  LET av == OrNegInfinity(a[key])
      bv == OrNegInfinity(b[key])
  IN  IF av < bv THEN -1
      ELSE IF av > bv THEN 1
      ELSE OrZero(b.pick_prob) - OrZero(a.pick_prob)

HomeCompare_MissingLast(a, b, key, dir) ==
  LET av == IF a[key] = Null THEN -NegInfinity ELSE a[key]
      bv == IF b[key] = Null THEN -NegInfinity ELSE b[key]
  IN  IF av < bv THEN (IF dir = "asc" THEN -1 ELSE 1)
      ELSE IF av > bv THEN (IF dir = "asc" THEN 1 ELSE -1)
      ELSE OrZero(b.pick_prob) - OrZero(a.pick_prob)

HomeCompare_TieFollowsDir(a, b, key, dir) ==
  LET av == OrNegInfinity(a[key])
      bv == OrNegInfinity(b[key])
  IN  IF av < bv THEN (IF dir = "asc" THEN -1 ELSE 1)
      ELSE IF av > bv THEN (IF dir = "asc" THEN 1 ELSE -1)
      ELSE IF dir = "asc" THEN OrZero(a.pick_prob) - OrZero(b.pick_prob)
      ELSE OrZero(b.pick_prob) - OrZero(a.pick_prob)

HomeCompare(a, b, key, dir) ==
  LET av == OrNegInfinity(a[key])
      bv == OrNegInfinity(b[key])
  IN  IF av < bv THEN (IF dir = "asc" THEN -1 ELSE 1)
      ELSE IF av > bv THEN (IF dir = "asc" THEN 1 ELSE -1)
      ELSE OrZero(b.pick_prob) - OrZero(a.pick_prob)

\* The comparator of HistoryPage.sorted: no ?? and no tie-breaker.
HistoryCompare(a, b, key, dir) ==
  LET av == a[key]
      bv == b[key]
  IN  IF av < bv THEN (IF dir = "asc" THEN -1 ELSE 1)
      ELSE IF av > bv THEN (IF dir = "asc" THEN 1 ELSE -1)
      ELSE 0

Compare(p, a, b, key, dir) ==
  IF p = "home" THEN HomeCompare(a, b, key, dir) ELSE HistoryCompare(a, b, key, dir)

\* ------------------------------------------------------------------- sort
Front(s) == SubSeq(s, 1, Len(s) - 1)
Last(s) == s[Len(s)]

\* Array.prototype.sort is stable: an element moves left only past elements
\* the comparator puts strictly after it.
RECURSIVE InsertSorted_DropEqual(_, _, _, _, _)
InsertSorted_DropEqual(p, s, x, key, dir) ==
  IF s = <<>> THEN <<x>>
  ELSE IF Compare(p, Last(s), x, key, dir) > 0
       THEN Append(InsertSorted_DropEqual(p, Front(s), x, key, dir), Last(s))
       ELSE IF Compare(p, Last(s), x, key, dir) = 0 /\ Last(s) = x THEN s
       ELSE Append(s, x)

RECURSIVE InsertSorted(_, _, _, _, _)
InsertSorted(p, s, x, key, dir) ==
  IF s = <<>> THEN <<x>>
  ELSE IF Compare(p, Last(s), x, key, dir) > 0
       THEN Append(InsertSorted(p, Front(s), x, key, dir), Last(s))
       ELSE Append(s, x)

RECURSIVE SortCopy(_, _, _, _)
SortCopy(p, copy, key, dir) ==
  IF copy = <<>> THEN <<>>
  ELSE InsertSorted(p, SortCopy(p, Front(copy), key, dir), Last(copy), key, dir)

\* useMemo(() => { const copy = [...rows]; copy.sort(cmp); return copy; })
SortedView(p, rs, key, dir) == SortCopy(p, rs, key, dir)

\* ------------------------------------------------------------------ state
VARIABLES
  page,     \* which page component this view is
  rows,     \* useState<Row[]>([])
  loading,  \* useState(false)
  err,      \* useState<string | null>(null)
  sortKey,  \* useState(...)
  sortDir,  \* useState<"asc" | "desc">("desc")
  sorted,   \* the memoised sorted view of the last render
  mounted,  \* whether the mount effect has run
  gets,     \* the GET requests awaited by fetchData / fetchHistory calls
  posts,    \* the POST requests awaited by onSnapshot calls
  started,  \* how many requests this view has started
  alert,    \* the text of the last alert() shown
  rows0,    \* history variable: rows as the last fetch call still awaited found it
  hist,     \* history variable: the last operation and the sort state before it
  track     \* history variable: how the GET requests started and resolved

vars == <<page, rows, loading, err, sortKey, sortDir, sorted, mounted, gets,
          posts, started, alert, rows0, hist, track>>

\* err === null
NoErr == "null"
\* no alert() has been shown
NoAlert == "none"
\* a thrown value that carries no message
NoMessage == "undefined"

InitialSortKey(p) == IF p = "home" THEN "pick_prob" ELSE "created_at"

\* ------------------------------------------------------------ the server
\* The rows the server holds for the page: two rows that every sort column
\* tells apart, and that pred_margin and pick_prob order oppositely.
Served(p) ==
  IF p = "home"
    THEN { r \in GameViews :
             /\ r.pick_prob # Null
             /\ r.pick_prob = 1 - r.pred_margin
             /\ (r.net_epa_per_play = Null) = (r.pred_margin = 0) }
    ELSE { r \in HistoryRows :
             /\ r.pick_prob = 1 - r.pred_margin
             /\ r.created_at = r.pred_margin }
\* The row lists a 2xx response carries.
Datasets(p) == RowLists(Served(p), MaxResp)
\* The bodies a response carries: JSON holding a row list, or text that
\* res.json() cannot parse.
BadBody == [json |-> FALSE, data |-> <<>>]
Bodies(p) == { [json |-> TRUE, data |-> d] : d \in Datasets(p) } \cup {BadBody}
\* The message of the SyntaxError res.json() rejects with.
BadBodyMessage == "Unexpected token"
Statuses == {200, 404, 500}
\* res.ok
IsOk(status) == status >= 200 /\ status <= 299
\* What a GET can answer: a 2xx status with any body, or a non-2xx status,
\* whose body the code never reads.
Responses(p) ==
  { res \in [status : Statuses, body : Bodies(p)] :
      IsOk(res.status) \/ res.body = BadBody }
\* What a rejected fetch() throws: a TypeError with a message, or a value
\* without one.
Thrown == {"Failed to fetch", NoMessage}

Digit(n) == <<"0", "1", "2", "3", "4", "5", "6", "7", "8", "9">>[n + 1]
\* The decimal text a template literal gives a number.
RECURSIVE NumberText(_)
NumberText(n) == IF n < 10 THEN Digit(n) ELSE NumberText(n \div 10) \o Digit(n % 10)

\* `HTTP ${res.status}`
HttpMessage(status) == "HTTP " \o NumberText(status)
\* the snapshot call throwing the message of the two GET calls
SnapshotHttpMessage_Generic(status) == "HTTP " \o NumberText(status)
\* `Snapshot failed (HTTP ${res.status})`
SnapshotHttpMessage(status) == "Snapshot failed (HTTP " \o NumberText(status) \o ")"
\* e?.message ?? fallback
MessageOr(m, fallback) == IF m = NoMessage THEN fallback ELSE m

\* -------------------------------------------------------- history records
\* op: the operation; key: the column of a header click; status: the HTTP
\* status of an answer (0 when there is none); sortKey, sortDir, sorted: the
\* sort state a header click was made in; twice: whether the click repeats
\* the click before it.
NoHist ==
  [op |-> "none", key |-> "", status |-> 0, sortKey |-> "", sortDir |-> "",
   sorted |-> <<>>, twice |-> FALSE]
\* The record of an operation that is no header click.
Did(op, status) == [NoHist EXCEPT !.op = op, !.status = status]
\* The record of toggleSort(key).  A click on the current sort column (a
\* direction flip) also keeps the view it was made in, and whether the
\* operation before it was a flip of the same column.
DidToggle(key) ==
  IF key = sortKey
    THEN [NoHist EXCEPT !.op = "toggleSort", !.key = key, !.sortKey = sortKey,
                        !.sortDir = sortDir, !.sorted = sorted,
                        !.twice = (hist.op = "toggleSort" /\ hist.key = key
                                   /\ hist.sortKey = key)]
    ELSE [NoHist EXCEPT !.op = "toggleSort", !.key = key, !.sortDir = sortDir]

\* newest: the id of the GET started last (0: none yet), with its outcome
\* ("pending", "ok", "failed") and, when ok, the rows it carried; lastId and
\* lastResult: the GET whose answer arrived last; okData: the rows of the
\* last ok answer to arrive; failedSince: whether a GET has failed since the
\* last GET was started.
NoTrack ==
  [newest |-> 0, newestResult |-> "none", newestData |-> <<>>, lastId |-> 0,
   lastResult |-> "none", okData |-> <<>>, failedSince |-> FALSE]
\* The record once a fetch call has started the GET with this id.
Called(id) ==
  [track EXCEPT !.newest = id, !.newestResult = "pending", !.newestData = <<>>,
                !.failedSince = FALSE]
\* The record once the answer to GET g has arrived: ok with rows data, or
\* a failure.
Answered(g, ok, data) ==
  [track EXCEPT !.lastId = g.id,
                !.lastResult = IF ok THEN "ok" ELSE "failed",
                !.okData = IF ok THEN data ELSE @,
                !.failedSince = (@ \/ ~ok),
                !.newestResult = IF g.id # track.newest THEN @
                                 ELSE IF ok THEN "ok" ELSE "failed",
                !.newestData = IF g.id = track.newest /\ ok THEN data ELSE @]

\* ------------------------------------------------------------- operations
\* d === "asc" ? "asc" : "asc"
FlipDir_StuckAsc(d) == "asc"

\* d === "asc" ? "desc" : "asc"
FlipDir(d) == IF d = "asc" THEN "desc" ELSE "asc"

\* setSortDir("desc") left out of the else branch
toggleSort_KeepDir(key) ==
  /\ mounted
  /\ IF sortKey = key
       THEN /\ sortDir' = FlipDir(sortDir)
            /\ sortKey' = sortKey
       ELSE /\ sortKey' = key
            /\ sortDir' = sortDir
  /\ sorted' = SortedView(page, rows, sortKey', sortDir')
  /\ UNCHANGED <<page, rows, loading, err, mounted, gets, posts, started, alert, rows0>>

\* rows.sort(cmp) in place of [...rows].sort(cmp)
toggleSort_SortsInPlace(key) ==
  /\ mounted
  /\ IF sortKey = key
       THEN /\ sortDir' = FlipDir(sortDir)
            /\ sortKey' = sortKey
       ELSE /\ sortKey' = key
            /\ sortDir' = "desc"
  /\ sorted' = SortedView(page, rows, sortKey', sortDir')
  /\ rows' = sorted'
  /\ UNCHANGED <<page, loading, err, mounted, gets, posts, started, alert, rows0>>

\* A header click: Th onClick={() => toggleSort(key)}, and the render after.
toggleSort(key) ==
  /\ mounted
  /\ IF sortKey = key
       THEN /\ sortDir' = FlipDir(sortDir)
            /\ sortKey' = sortKey
       ELSE /\ sortKey' = key
            /\ sortDir' = "desc"
  /\ sorted' = SortedView(page, rows, sortKey', sortDir')
  /\ UNCHANGED <<page, rows, loading, err, mounted, gets, posts, started, alert, rows0>>

\* fetchData / fetchHistory up to its await: setLoading(true), setErr(null),
\* fetch(url).  origin names the caller.
StartGet(origin) ==
  /\ started < MaxFetches
  /\ started' = started + 1
  /\ loading' = TRUE
  /\ err' = NoErr
  /\ gets' = gets \cup {[id |-> started + 1, origin |-> origin]}
  /\ rows0' = rows
  /\ sorted' = SortedView(page, rows, sortKey, sortDir)
  /\ UNCHANGED <<page, rows, sortKey, sortDir>>

\* useEffect(() => { fetchData(); }, [])
Mount ==
  /\ ~mounted
  /\ mounted' = TRUE
  /\ StartGet("mount")
  /\ UNCHANGED <<posts, alert>>

\* The Load button: onClick={fetchData} disabled={loading}
ClickLoad ==
  /\ mounted
  /\ ~loading
  /\ StartGet("load")
  /\ UNCHANGED <<mounted, posts, alert>>

\* The awaited GET answers.  Not ok: throw new Error(`HTTP ${status}`),
\* caught: setErr(message).  Ok: res.json(), then setRows(data), or the
\* parse error caught.  finally: setLoading(false).
\* a response is dropped while a GET started after it is still in flight
GetResponds_IgnoresStale(g, status, body) ==
  /\ g \in gets
  /\ gets' = gets \ {g}
  /\ IF ~IsOk(status)
       THEN /\ err' = HttpMessage(status)
            /\ rows' = rows
       ELSE IF ~body.json
       THEN /\ err' = BadBodyMessage
            /\ rows' = rows
       ELSE /\ rows' = (IF \E h \in gets : h.id > g.id THEN rows ELSE body.data)
            /\ err' = err
  /\ loading' = FALSE
  /\ sorted' = SortedView(page, rows', sortKey, sortDir)
  /\ rows0' = (IF gets' = {} THEN <<>> ELSE rows0)
  /\ UNCHANGED <<page, sortKey, sortDir, mounted, posts, started, alert>>

\* setErr(null) next to setRows(data)
GetResponds_ClearsErrOnSuccess(g, status, body) ==
  /\ g \in gets
  /\ gets' = gets \ {g}
  /\ IF ~IsOk(status)
       THEN /\ err' = HttpMessage(status)
            /\ rows' = rows
       ELSE IF ~body.json
       THEN /\ err' = BadBodyMessage
            /\ rows' = rows
       ELSE /\ rows' = body.data
            /\ err' = NoErr
  /\ loading' = FALSE
  /\ sorted' = SortedView(page, rows', sortKey, sortDir)
  /\ rows0' = (IF gets' = {} THEN <<>> ELSE rows0)
  /\ UNCHANGED <<page, sortKey, sortDir, mounted, posts, started, alert>>

\* setRows([]) in the catch block
GetResponds_ClearsRowsOnError(g, status, body) ==
  /\ g \in gets
  /\ gets' = gets \ {g}
  /\ IF ~IsOk(status)
       THEN /\ err' = HttpMessage(status)
            /\ rows' = <<>>
       ELSE IF ~body.json
       THEN /\ err' = BadBodyMessage
            /\ rows' = <<>>
       ELSE /\ rows' = body.data
            /\ err' = err
  /\ loading' = FALSE
  /\ sorted' = SortedView(page, rows', sortKey, sortDir)
  /\ rows0' = (IF gets' = {} THEN <<>> ELSE rows0)
  /\ UNCHANGED <<page, sortKey, sortDir, mounted, posts, started, alert>>

GetResponds(g, status, body) ==
  /\ g \in gets
  /\ gets' = gets \ {g}
  /\ IF ~IsOk(status)
       THEN /\ err' = HttpMessage(status)
            /\ rows' = rows
       ELSE IF ~body.json
       THEN /\ err' = BadBodyMessage
            /\ rows' = rows
       ELSE /\ rows' = body.data
            /\ err' = err
  /\ loading' = FALSE
  /\ sorted' = SortedView(page, rows', sortKey, sortDir)
  /\ rows0' = (IF gets' = {} THEN <<>> ELSE rows0)
  /\ UNCHANGED <<page, sortKey, sortDir, mounted, posts, started, alert>>

\* setLoading(false) at the end of the try block in place of finally
GetRejects_NoFinally(g, m) ==
  /\ g \in gets
  /\ gets' = gets \ {g}
  /\ err' = MessageOr(m, "Failed to load")
  /\ loading' = loading
  /\ sorted' = SortedView(page, rows, sortKey, sortDir)
  /\ rows0' = (IF gets' = {} THEN <<>> ELSE rows0)
  /\ UNCHANGED <<page, rows, sortKey, sortDir, mounted, posts, started, alert>>

\* The awaited GET rejects (transport failure): setErr(e?.message ??
\* "Failed to load"), finally setLoading(false).
GetRejects(g, m) ==
  /\ g \in gets
  /\ gets' = gets \ {g}
  /\ err' = MessageOr(m, "Failed to load")
  /\ loading' = FALSE
  /\ sorted' = SortedView(page, rows, sortKey, sortDir)
  /\ rows0' = (IF gets' = {} THEN <<>> ELSE rows0)
  /\ UNCHANGED <<page, rows, sortKey, sortDir, mounted, posts, started, alert>>

\* fetchHistory() called beside the POST, not after it
ClickSnapshot_RefetchInParallel ==
  /\ page = "history"
  /\ mounted
  /\ StartGet("snapshot")
  /\ UNCHANGED <<mounted, posts, alert>>

\* The Save snapshot button: onClick={onSnapshot}, up to its await.
ClickSnapshot ==
  /\ page = "history"
  /\ mounted
  /\ started < MaxFetches
  /\ started' = started + 1
  /\ posts' = posts \cup {[id |-> started + 1]}
  /\ sorted' = SortedView(page, rows, sortKey, sortDir)
  /\ UNCHANGED <<page, rows, loading, err, sortKey, sortDir, mounted, gets, alert, rows0>>

\* setErr(message) in the catch block of onSnapshot, beside the alert
PostResponds_SetsErr(o, status) ==
  /\ o \in posts
  /\ posts' = posts \ {o}
  /\ IF ~IsOk(status)
       THEN /\ alert' = SnapshotHttpMessage(status)
            /\ err' = SnapshotHttpMessage(status)
            /\ sorted' = SortedView(page, rows, sortKey, sortDir)
            /\ UNCHANGED <<page, rows, loading, sortKey, sortDir, mounted,
                           gets, started, rows0>>
       ELSE /\ StartGet("snapshot")
            /\ UNCHANGED <<mounted, alert>>

\* The awaited POST answers.  Not ok: throw, caught: alert(message).
\* Ok: await fetchHistory().
PostResponds(o, status) ==
  /\ o \in posts
  /\ posts' = posts \ {o}
  /\ IF ~IsOk(status)
       THEN /\ alert' = SnapshotHttpMessage(status)
            /\ sorted' = SortedView(page, rows, sortKey, sortDir)
            /\ UNCHANGED <<page, rows, loading, err, sortKey, sortDir, mounted,
                           gets, started, rows0>>
       ELSE /\ StartGet("snapshot")
            /\ UNCHANGED <<mounted, alert>>

\* The awaited POST rejects: alert(e?.message ?? "Snapshot failed").
PostRejects(o, m) ==
  /\ o \in posts
  /\ posts' = posts \ {o}
  /\ alert' = MessageOr(m, "Snapshot failed")
  /\ sorted' = SortedView(page, rows, sortKey, sortDir)
  /\ UNCHANGED <<page, rows, loading, err, sortKey, sortDir, mounted, gets, started, rows0>>

\* ------------------------------------------------------- the page machine
\* The state of the first render of either page.
Init ==
  /\ page \in Pages
  /\ rows = <<>>
  /\ loading = FALSE
  /\ err = NoErr
  /\ sortKey = InitialSortKey(page)
  /\ sortDir = "desc"
  /\ sorted = SortedView(page, rows, sortKey, sortDir)
  /\ mounted = FALSE
  /\ gets = {}
  /\ posts = {}
  /\ started = 0
  /\ alert = NoAlert
  /\ rows0 = <<>>
  /\ hist = NoHist
  /\ track = NoTrack

Next ==
  \/ Mount /\ hist' = Did("mount", 0) /\ UNCHANGED track
  \/ ClickLoad /\ hist' = Did("load", 0) /\ UNCHANGED track
  \/ \E key \in Keys(page) :
       toggleSort(key) /\ hist' = DidToggle(key) /\ UNCHANGED track
  \/ \E g \in gets, res \in Responses(page) :
       /\ GetResponds(g, res.status, res.body)
       /\ hist' = Did(IF IsOk(res.status) /\ res.body.json THEN "fetchOk" ELSE "fetchFailed",
                      res.status)
       /\ UNCHANGED track
  \/ \E g \in gets, m \in Thrown :
       GetRejects(g, m) /\ hist' = Did("fetchFailed", 0) /\ UNCHANGED track
  \/ ClickSnapshot /\ hist' = Did("snapshot", 0) /\ UNCHANGED track
  \/ \E o \in posts, status \in Statuses :
       /\ PostResponds(o, status)
       /\ hist' = Did(IF IsOk(status) THEN "postOk" ELSE "postFailed", status)
       /\ UNCHANGED track
  \/ \E o \in posts, m \in Thrown :
       PostRejects(o, m) /\ hist' = Did("postFailed", 0) /\ UNCHANGED track

Spec == Init /\ [][Next]_vars

\* ---------------------------------------------- overlapping requests
\* The page machine with the requests' history recorded in track.
\* The ids requests can carry.
RequestIds == 1 .. MaxFetches
\* The GET with this id is answered: by a response, or by a rejection.
GetAnswers(id) ==
  \E g \in gets :
    /\ g.id = id
    /\ \/ \E res \in Responses(page) :
            /\ GetResponds(g, res.status, res.body)
            /\ track' = Answered(g, IsOk(res.status) /\ res.body.json, res.body.data)
       \/ \E m \in Thrown :
            GetRejects(g, m) /\ track' = Answered(g, FALSE, <<>>)
    /\ UNCHANGED hist
\* The POST with this id is answered: by a response, or by a rejection.
PostAnswers(id) ==
  \E o \in posts :
    /\ o.id = id
    /\ \/ \E status \in Statuses :
            /\ PostResponds(o, status)
            /\ track' = (IF IsOk(status) THEN Called(started + 1) ELSE track)
       \/ \E m \in Thrown : PostRejects(o, m) /\ UNCHANGED track
    /\ UNCHANGED hist
RaceNext ==
  \/ Mount /\ track' = Called(started + 1) /\ UNCHANGED hist
  \/ ClickLoad /\ track' = Called(started + 1) /\ UNCHANGED hist
  \/ \E key \in Keys(page) : toggleSort(key) /\ UNCHANGED <<hist, track>>
  \/ \E id \in RequestIds : GetAnswers(id)
  \/ ClickSnapshot /\ UNCHANGED <<hist, track>>
  \/ \E id \in RequestIds : PostAnswers(id)

RaceSpec == Init /\ [][RaceNext]_vars

\* The same machine on a network where every request made is answered in
\* the end: the awaited promise of each fetch() settles, one way or another.
LiveSpec ==
  /\ Init
  /\ [][RaceNext]_vars
  /\ \A id \in RequestIds : WF_vars(GetAnswers(id)) /\ WF_vars(PostAnswers(id))

\* ------------------------------------------- the sort as a pure function
\* Any fetched list, any sort column and direction, no request in flight;
\* the header clicks re-sort it.
SortInit ==
  /\ page \in Pages
  /\ rows \in RowLists(RowsOf(page), MaxRows)
  /\ loading = FALSE
  /\ err = NoErr
  /\ sortKey \in Keys(page)
  /\ sortDir \in Dirs
  /\ sorted = SortedView(page, rows, sortKey, sortDir)
  /\ mounted = TRUE
  /\ gets = {}
  /\ posts = {}
  /\ started = 0
  /\ alert = NoAlert
  /\ rows0 = <<>>
  /\ hist = NoHist
  /\ track = NoTrack

SortNext == \E key \in Keys(page) : toggleSort(key) /\ UNCHANGED <<hist, track>>

SortSpec == SortInit /\ [][SortNext]_vars

\* ------------------------------------------------- claims about the sort
\* How often row r occurs in list s.
Count(s, r) == Cardinality({ i \in DOMAIN s : s[i] = r })

\* The value the claims order rows by: the value at the sort key, a missing
\* one counted as negative infinity.
KeyValue(r) == IF r[sortKey] = Null THEN NegInfinity ELSE r[sortKey]

\* pick_prob with a missing one counted as 0.
PickProb(r) == IF r.pick_prob = Null THEN 0 ELSE r.pick_prob

\* C1: on the Home page the sorted view is a permutation of rows: the same
\* length, and every record occurs in it exactly as often as in rows.
C1_SortedIsPermutation ==
  page = "home" =>
    /\ Len(sorted) = Len(rows)
    /\ \A r \in GameViews : Count(sorted, r) = Count(rows, r)

\* A Home list with a record held twice, which the sort had to reorder.
C1_Witness ==
  /\ page = "home"
  /\ Len(rows) = 3
  /\ rows[1] = rows[3]
  /\ rows[1] # rows[2]
  /\ sorted # rows

\* C2: on the Home page the sorted view is ordered by the value at sortKey:
\* non-decreasing under asc, non-increasing under desc.
C2_SortedIsOrdered ==
  page = "home" =>
    \A i, j \in DOMAIN sorted :
      i < j =>
        IF sortDir = "asc"
          THEN KeyValue(sorted[i]) <= KeyValue(sorted[j])
          ELSE KeyValue(sorted[i]) >= KeyValue(sorted[j])

\* A descending Home view over three rows with different key values that
\* the sort had to reorder.
C2_Witness ==
  /\ page = "home"
  /\ sortDir = "desc"
  /\ Len(rows) = 3
  /\ \E i, j \in DOMAIN rows : i < j /\ KeyValue(rows[i]) < KeyValue(rows[j])
  /\ \E i, j \in DOMAIN sorted : KeyValue(sorted[i]) > KeyValue(sorted[j])

\* C3: on the Home page every row with a missing value at the sort key comes
\* before every row with a defined one under asc, and after it under desc.
C3_MissingAtOneEnd ==
  page = "home" =>
    \A i, j \in DOMAIN sorted :
      (sorted[i][sortKey] = Null /\ sorted[j][sortKey] # Null) =>
        IF sortDir = "asc" THEN i < j ELSE j < i

\* Ascending by net_epa_per_play, where rows holds a defined value ahead of
\* a missing one.
C3_Witness ==
  /\ page = "home"
  /\ sortKey = "net_epa_per_play"
  /\ sortDir = "asc"
  /\ \E i, j \in DOMAIN rows :
       i < j /\ rows[i][sortKey] # Null /\ rows[j][sortKey] = Null
  /\ sorted # <<>>
  /\ sorted[1][sortKey] = Null

\* C4: on the Home page, of two rows with equal values at the sort key the
\* one with the higher pick_prob (missing counted as 0) comes first, under
\* asc and under desc alike.
C4_TieBreakByPickProb ==
  page = "home" =>
    \A i, j \in DOMAIN sorted :
      (i < j /\ KeyValue(sorted[i]) = KeyValue(sorted[j])) =>
        PickProb(sorted[i]) >= PickProb(sorted[j])

\* Ascending by pred_margin, where rows holds two rows of equal margin with
\* the lower pick_prob first.
C4_Witness ==
  /\ page = "home"
  /\ sortKey = "pred_margin"
  /\ sortDir = "asc"
  /\ \E i, j \in DOMAIN rows :
       /\ i < j
       /\ KeyValue(rows[i]) = KeyValue(rows[j])
       /\ PickProb(rows[i]) < PickProb(rows[j])
  /\ \E i, j \in DOMAIN sorted :
       /\ i < j
       /\ KeyValue(sorted[i]) = KeyValue(sorted[j])
       /\ PickProb(sorted[i]) > PickProb(sorted[j])

\* C5: on the History page under desc, of two rows with equal values at the
\* sort key the one with the higher pick_prob comes first.
C5_HistoryTieBreak ==
  (page = "history" /\ sortDir = "desc") =>
    \A i, j \in DOMAIN sorted :
      (i < j /\ sorted[i][sortKey] = sorted[j][sortKey]) =>
        sorted[i].pick_prob >= sorted[j].pick_prob

\* ------------------------------------------- claims about the page machine
\* C6: sorting never mutates the fetched list.  A toggleSort step leaves
\* rows, loading and err unchanged and starts no request; rows changes only
\* in the step in which an awaited GET completes successfully.
C6_SortingLeavesRows ==
  [][ /\ (hist'.op = "toggleSort") =>
           /\ rows' = rows
           /\ loading' = loading
           /\ err' = err
           /\ gets' = gets
           /\ posts' = posts
           /\ started' = started
      /\ (rows' # rows) =>
           /\ hist'.op = "fetchOk"
           /\ \E g \in gets : gets' = gets \ {g} ]_vars

\* After a header click, rows still holds two rows in the fetched order
\* although the view shows them in the other order.
C6_Witness ==
  /\ hist.op = "toggleSort"
  /\ Len(rows) = 2
  /\ sorted # rows
  /\ sorted = <<rows[2], rows[1]>>

\* C7: toggleSort(k) on the current sort key flips sortDir and keeps
\* sortKey; on another key it sets sortKey to k and sortDir to desc.
C7_ToggleSort ==
  [][ (hist'.op = "toggleSort") =>
        IF hist'.key = sortKey
          THEN /\ sortKey' = sortKey
               /\ (sortDir = "asc" => sortDir' = "desc")
               /\ (sortDir = "desc" => sortDir' = "asc")
          ELSE /\ sortKey' = hist'.key
               /\ sortDir' = "desc" ]_vars

\* A click on another column while sortDir was asc has set that column and
\* desc.
C7_Witness ==
  /\ hist.op = "toggleSort"
  /\ hist.sortKey = ""
  /\ hist.sortDir = "asc"
  /\ sortKey = hist.key
  /\ sortDir = "desc"

\* C8: the second of two consecutive toggleSort calls on the current sort
\* key restores the sortDir and the sorted view the first one was made in.
C8_ToggleRoundTrip ==
  [][ ( /\ hist.op = "toggleSort"
        /\ hist.sortKey = hist.key
        /\ hist'.op = "toggleSort"
        /\ hist'.key = hist.key ) =>
        /\ sortKey' = hist.key
        /\ sortDir' = hist.sortDir
        /\ sorted' = hist.sorted ]_vars

\* Two flips of one column in a row, over two rows whose order the flip
\* changes: the view is back to the view before the first flip.
C8_Witness ==
  /\ hist.op = "toggleSort"
  /\ hist.twice
  /\ Len(rows) = 2
  /\ sorted # hist.sorted
  /\ sortDir = "desc"

\* C9: when GET /predict answers with a non-2xx status S, the completing
\* step sets err to "HTTP S" and loading to false and leaves rows, sortKey
\* and sortDir as they were, rows being still the list the fetch call
\* found; the call itself changed none of the three either.
C9_HttpErrorOnlySetsErr ==
  [][ /\ ( /\ page = "home"
           /\ hist'.op = "fetchFailed"
           /\ hist'.status \in Statuses
           /\ ~(hist'.status >= 200 /\ hist'.status <= 299) ) =>
           /\ hist'.status = 404 => err' = "HTTP 404"
           /\ hist'.status = 500 => err' = "HTTP 500"
           /\ hist'.status \in {404, 500}
           /\ loading' = FALSE
           /\ rows' = rows
           /\ rows' = rows0
           /\ sortKey' = sortKey
           /\ sortDir' = sortDir
           /\ gets' = {}
      /\ (page = "home" /\ hist'.op \in {"mount", "load"}) =>
           /\ rows' = rows
           /\ sortKey' = sortKey
           /\ sortDir' = sortDir ]_vars

\* A Load on the Home page that was answered 500 while rows held a fetched
\* list.
C9_Witness ==
  /\ page = "home"
  /\ hist.op = "fetchFailed"
  /\ hist.status = 500
  /\ err = "HTTP 500"
  /\ rows # <<>>
  /\ ~loading
  /\ gets = {}

\* C10: at most one unresolved request started by the Load button, and at
\* most one unresolved snapshot operation (its POST, or the refetch it
\* awaits) started by the Save snapshot button.
C10_OneInFlightPerControl ==
  /\ Cardinality({ g \in gets : g.origin = "load" }) <= 1
  /\ Cardinality(posts) + Cardinality({ g \in gets : g.origin = "snapshot" }) <= 1

\* C11: last response wins.  Whenever the answer that arrived last was a
\* successful one, rows is the data that answer carried, whether its GET was
\* started before or after the other GETs; and a GET leaves the set of
\* requests in flight only when its own answer arrives, never by being
\* aborted.
C11_LastResponseWins ==
  [][/\ track'.lastResult = "ok" => rows' = track'.okData
     /\ \A g \in gets \ gets' : track'.lastId = g.id /\ track.lastId # g.id
     /\ Cardinality(gets \ gets') <= 1]_vars
\* Two GETs of the History page overlapped and both succeeded; the one
\* started first answered last, with other rows than the newer one.
C11_Witness ==
  /\ gets = {}
  /\ track.lastId # 0
  /\ track.lastId < track.newest
  /\ track.lastResult = "ok"
  /\ track.newestResult = "ok"
  /\ track.newestData # track.okData
  /\ rows = track.okData

\* The failure statuses a response can carry, each with its decimal text.
FailureStatuses == {<<404, "404">>, <<500, "500">>}

\* C12 as stated: a non-2xx response with status S is surfaced as exactly
\* "HTTP S" by each of the three calls: in err by GET /predict and GET
\* /history, in the alert by POST /predict/snapshot.
C12_UniformHttpMessage ==
  \A f \in FailureStatuses :
    /\ hist.op = "fetchFailed" /\ hist.status = f[1] => err = "HTTP " \o f[2]
    /\ hist.op = "postFailed" /\ hist.status = f[1] => alert = "HTTP " \o f[2]
\* C12 as the code has it: the two GET calls surface a non-2xx status S as
\* err = "HTTP S"; the snapshot POST surfaces it as the alert text
\* "Snapshot failed (HTTP S)".
C12_HttpMessagePerCall ==
  \A f \in FailureStatuses :
    /\ hist.op = "fetchFailed" /\ hist.status = f[1] => err = "HTTP " \o f[2]
    /\ hist.op = "postFailed" /\ hist.status = f[1] =>
         alert = "Snapshot failed (HTTP " \o f[2] \o ")"
\* The snapshot POST has just answered 500 on a page still showing the 404
\* of its last GET.
C12_Witness ==
  /\ hist.op = "postFailed"
  /\ hist.status = 500
  /\ alert = "Snapshot failed (HTTP 500)"
  /\ err = "HTTP 404"

\* C13: when the snapshot POST fails, by a non-2xx answer or by a transport
\* error, onSnapshot shows an alert and does nothing else: err, rows and
\* loading keep their values and no GET /history request is started.
C13_SnapshotFailureAlertsOnly ==
  [][hist'.op = "postFailed" =>
       /\ alert' # NoAlert
       /\ alert' \in {SnapshotHttpMessage(hist'.status), "Failed to fetch", "Snapshot failed"}
       /\ err' = err
       /\ rows' = rows
       /\ loading' = loading
       /\ gets' = gets
       /\ started' = started]_vars
\* The POST has been refused with 500 while the page showed rows, the error
\* of a later GET, and no GET in flight.
C13_Witness ==
  /\ hist.op = "postFailed"
  /\ hist.status = 500
  /\ alert = "Snapshot failed (HTTP 500)"
  /\ rows # <<>>
  /\ err = "Failed to load"
  /\ ~loading
  /\ gets = {}

\* C14: the busy flag.  In every reachable state in which a GET started by
\* fetchData / fetchHistory has not yet resolved, loading is true, also when
\* the GETs of the mount effect, the Load button and the snapshot refetch
\* overlap.
C14_BusyWhileFetching == gets # {} => loading

\* C15 as stated: in every reachable state with no fetch in flight, err is
\* non-null exactly when the most recently started fetch failed; when that
\* fetch succeeded, err is null and rows holds its data, whatever the
\* outcome and the arrival time of an earlier overlapping fetch.
C15_NewestFetchDecides ==
  gets = {} /\ track.newest # 0 =>
    /\ err # NoErr <=> track.newestResult = "failed"
    /\ track.newestResult = "ok" => err = NoErr /\ rows = track.newestData
\* C15 as the code has it: in every reachable state with no fetch in flight,
\* err is non-null exactly when some fetch has failed since the last fetch
\* was started, and rows holds the data of the successful response that
\* arrived last (the empty initial list when there was none); on the Home
\* page, where fetches never overlap, these are the outcome and the data of
\* the most recently started fetch.
C15_LastArrivalsDecide ==
  gets = {} /\ track.newest # 0 =>
    /\ err # NoErr <=> track.failedSince
    /\ rows = track.okData
    /\ page = "home" =>
         /\ err # NoErr <=> track.newestResult = "failed"
         /\ track.newestResult = "ok" => err = NoErr /\ rows = track.newestData
\* On the History page the fetch started last has succeeded and an older
\* overlapping one has failed after it was started: err is set.
C15_Witness ==
  /\ page = "history"
  /\ gets = {}
  /\ track.newestResult = "ok"
  /\ track.failedSince
  /\ err # NoErr
  /\ rows = track.okData

\* C16: every fetch call ends the busy state.  On a network that answers
\* every request in the end, loading becomes false again after every
\* fetchData / fetchHistory call; and the step in which a GET fails, in any
\* of the ways it can (non-2xx, transport error, unparsable body), stores the
\* error in err, clears loading, and issues no request of any kind.
C16_FetchEndsBusy ==
  /\ loading ~> ~loading
  /\ [][track'.lastId # track.lastId =>
          /\ loading' = FALSE
          /\ track'.lastResult = "failed" =>
               /\ err' # NoErr
               /\ started' = started
               /\ posts' = posts
               /\ gets' \subseteq gets
               /\ Cardinality(gets') = Cardinality(gets) - 1]_vars
\* The last fetch started has failed by a transport error with no message:
\* nothing is in flight, the page is not busy and shows the fallback text.
C16_Witness ==
  /\ track.newest # 0
  /\ track.lastId = track.newest
  /\ track.lastResult = "failed"
  /\ gets = {}
  /\ posts = {}
  /\ ~loading
  /\ err = "Failed to load"

====
